---- MODULE Spec2Model ----
(***************************************************************************)
(* videoReference: the drag-and-drop installers                            *)
(* (videoReferenceDragDropInstall.py, dragDropInstall.py), the Create-menu *)
(* registration and the option persistence of                              *)
(* videoReference/scripts/videoReference.py.                               *)
(*                                                                         *)
(* Six specifications share the variables:                               *)
(*   SpecInstall  - one host session in which installer files are dropped  *)
(*   SpecMenu     - createMenuItems / deleteMenuItems against the host menu*)
(*   SpecOptions  - the option box, the option variables and the command   *)
(*   SpecDoIt     - one invocation of VideoReference.doIt                   *)
(*   SpecCopy     - copy() of either installer on a directory               *)
(*   SpecSession  - installs and deferred menu registration in one session  *)
(***************************************************************************)
EXTENDS Integers, Sequences, FiniteSets, TLC

(***************************************************************************)
(* Paths.  Source paths are relative to draggedFromPath, destination paths *)
(* relative to defaultModulesPath; the manifest keeps the same relative    *)
(* names on both sides.                                                    *)
(***************************************************************************)
ScriptFile == "videoReference/scripts/videoReference.py"

UserSetupFile == "videoReference/scripts/userSetup.py"

IconFile == "videoReference/icons/videoReference.png"

ModFile == "videoReference.mod"

ModuleDir == "videoReference"

\* the package pip writes below moduleScriptPath/<mayaVersion>
PipTarget == "videoReference/scripts/<mayaVersion>/cv2"

\* self.installationFiles, in list order
installationFiles == << ScriptFile, UserSetupFile, IconFile, ModFile >>

Manifest == { installationFiles[i] : i \in 1..Len(installationFiles) }

\* the files below <draggedFromPath>/<moduleName>
ModuleDirFiles == { ScriptFile, UserSetupFile, IconFile }

\* self.existingFiles, in list order
existingFiles == << ModuleDir, ModFile >>

\* every path the destination may hold
DstPaths == { ModuleDir, ModFile, PipTarget } \cup ModuleDirFiles

\* a file below the module directory exists only if the directory does
DstConsistent(d) == (d \cap (ModuleDirFiles \cup {PipTarget}) # {}) => ModuleDir \in d

\* validatePythonVersion(requiredVersion=3)
requiredVersion == 3

MayaVersions == { 2022, 2023 }

PythonVersions == { 2, 3 }

VARIABLES
    \* ---- host and file system seen by the installers
    mayaVersion,        \* int(cmds.about(version=True))
    mayaPythonVersion,  \* int(os.environ['MAYA_PYTHON_VERSION'])
    src,                \* manifest files present in the dragged bundle
    dst,                \* paths present below the modules directory
    pluginLoaded,       \* cmds.pluginInfo(moduleName, query=True, loaded=True)
    sceneModified,      \* cmds.file(query=True, modified=True)
    quitCalled,         \* cmds.quit() was invoked
    \* ---- one install() invocation
    installer,          \* "none", "VRI" (VideoReferenceInstaller), "DDI" (DragDropInstall)
    pc,                 \* position inside install()
    events,             \* observable calls of this invocation, in order
    ret,                \* "none" while running, else install()'s return value ("True"/"False")
    confirmInput,       \* answer to the installation dialog
    saveInput,          \* answer to the save-scene dialog of setupPlugin
    restartInput,       \* answer to the restart dialog
    setupRet,           \* setupPlugin()'s return value
    depsRet,            \* installDependencies()'s return value
    copyRet,            \* the return values of the two copy() calls
    dstAtStart,         \* dst when the file was dropped
    \* ---- VideoReference menu registration
    menuItems,          \* VideoReference._menuItems
    hostMenu,           \* item array of mainCreateMenu
    nextHandle,         \* source of fresh menu item names
    menuHist,           \* the last two calls: <<[op, ret], ...>>
    \* ---- option persistence
    optionVar,          \* cmds.optionVar store, per option
    checkBoxExists,     \* cmds.checkBoxGrp(widget, exists=True), per option
    checkBoxValue,      \* value1 of the checkBoxGrp, per option
    kwargs,             \* what getCreateCommandKwargs returned, when it ran last
    doItArgs,           \* the parameter values of doIt, when it ran last
    \* ---- the host scene seen by VideoReference.doIt
    videos,             \* video files of the browsed folder, with what cv2 reads from each
    activeCamera,       \* transform of the camera of the active 3d view
    camVisibility,      \* its visibility plug: [value, locked, connected]
    currentTime,        \* cmds.currentTime(query=True)
    compositions,       \* cmds.ls(type="timeEditorTracks")
    activeComposition,  \* cmds.timeEditorComposition(query=True, active=True)
    editorOpen,         \* the Time Editor window is open
    selection,          \* cmds.ls(selection=True)
    \* ---- VideoReference class attributes
    cameraTransform,    \* VideoReference._cameraTransform
    nearClip,           \* VideoReference._nearClip
    timeEditorComposition, \* VideoReference._timeEditorComposition
    \* ---- the last doIt() invocation
    videoPaths,         \* what cmds.fileDialog2 returned (<< >> for None)
    breakInput,         \* answer to the dialog of unhideCamera, "none" if not shown
    doItLog,            \* host calls of setupCamera .. TimeEditorWindow, in order
    imagePlanes,        \* the image planes it created, in creation order
    clips,              \* the Time Editor clips it created, in creation order
    doItRet,            \* "none" before the first call, else "True"/"False"
    sceneAtCall,        \* the host scene when it was called
    \* ---- one copy() call on a directory source
    sourceDir,          \* the source: [exists, files], files found below it
    destinationDir,     \* paths present at the destination
    copyOk,             \* files whose QFile.copy succeeded in the last call
    copyReturn,         \* "none" before the first call, else "True"/"False"/"raised"
    \* ---- the python session of the host
    moduleLoaded,       \* "videoReference" is in sys.modules
    deferred            \* addMenuItem calls queued by utils.executeDeferred

installVars ==
    << mayaVersion, mayaPythonVersion, src, dst, pluginLoaded, sceneModified,
       quitCalled, installer, pc, events, ret, confirmInput, saveInput,
       restartInput, setupRet, depsRet, copyRet, dstAtStart >>

menuVars == << menuItems, hostMenu, nextHandle, menuHist >>

optionVars == << optionVar, checkBoxExists, checkBoxValue, kwargs, doItArgs >>

\* the part of the scene doIt reads and writes
hostScene ==
    [ activeCamera |-> activeCamera, camVisibility |-> camVisibility,
      currentTime |-> currentTime, compositions |-> compositions,
      activeComposition |-> activeComposition, editorOpen |-> editorOpen,
      selection |-> selection ]

sceneVars ==
    << videos, activeCamera, camVisibility, currentTime, compositions,
       activeComposition, editorOpen, selection, cameraTransform, nearClip, timeEditorComposition,
       videoPaths, breakInput, doItLog, imagePlanes, clips, doItRet, sceneAtCall >>

copyVars == << sourceDir, destinationDir, copyOk, copyReturn >>

sessionVars == << moduleLoaded, deferred >>

vars == << installVars, menuVars, optionVars, sceneVars, copyVars, sessionVars >>

(***************************************************************************)
(* Installer helpers (identical in both installer classes).                *)
(***************************************************************************)

validatePythonVersion_NoCheck(version, required) == TRUE

\* True iff the running python version is at least the required one
validatePythonVersion(version, required) == version >= required

validateInstallationFiles_SkipMod(source) ==
    { installationFiles[i] : i \in 1..(Len(installationFiles) - 1) } \ source = {}

\* missingFiles collects every manifest entry that does not exist
validateInstallationFiles(source) ==
    LET missingFiles == { f \in Manifest : f \notin source }
    IN  Cardinality(missingFiles) = 0

removeExistingVersion_DirOnly(d) ==
    d \ ({ ModuleDir, PipTarget } \cup ModuleDirFiles)

\* the module directory is removed recursively, the .mod file is removed
removeExistingVersion(d) ==
    LET removeDir(x) == IF ModuleDir \in x
                        THEN x \ ({ ModuleDir, PipTarget } \cup ModuleDirFiles)
                        ELSE x
        removeFile(x) == IF ModFile \in x THEN x \ { ModFile } ELSE x
    IN  removeFile(removeDir(d))

\* copy() of the .mod file: validateFileInfo, overwrite, QFile.copy
copyFile(source, d, ok) ==
    IF ModFile \notin source
    THEN [ dst |-> d, ret |-> FALSE ]
    ELSE [ dst |-> (d \ { ModFile }) \cup (IF ok THEN { ModFile } ELSE {}),
           ret |-> ok ]

\* python's bool as the value a call returned ("none": not called yet)
Bool(b) == IF b THEN "True" ELSE "False"

\* copy(source, destination) on a directory: a source that does not exist
\* fails validateFileInfo; for a directory without files getFilesInDirectory
\* returns False and len(False) raises TypeError; otherwise every file found
\* is overwritten and copied, and `finished` keeps the result of the file
\* iterated last
copyDirectory(exists, fileObjs, d, okFiles, last) ==
    IF ~exists
    THEN [ dst |-> d, ret |-> "False" ]
    ELSE IF fileObjs = {}
    THEN [ dst |-> d, ret |-> "raised" ]
    ELSE [ dst |-> ((d \ fileObjs) \cup { ModuleDir }) \cup (fileObjs \cap okFiles),
           ret |-> Bool(last \in okFiles) ]

\* copy() of the module directory of the bundle; install() calls it after
\* validateInstallationFiles has found every manifest file
copyDir(source, d, okFiles, last) ==
    LET fileObjs == source \cap ModuleDirFiles
    IN  copyDirectory(fileObjs # {}, fileObjs, d, okFiles, last)

\* the two copy() calls of copyInstallationFiles, .mod first
copyInstallationFiles(source, d, okFiles, last) ==
    LET first  == copyFile(source, d, ModFile \in okFiles)
        second == copyDir(source, first.dst, okFiles, last)
    IN  [ dst |-> second.dst, ret |-> << Bool(first.ret), second.ret >> ]

VRI_installSteps_CopyFirst ==
    << "validatePython", "validateFiles", "confirm", "setupPlugin", "copy", "remove",
       "deps", "restart" >>

\* the statements of VideoReferenceInstaller.install() in program order
VRI_installSteps ==
    << "validatePython", "validateFiles", "confirm", "setupPlugin", "remove", "copy",
       "deps", "restart" >>

\* the statements of DragDropInstall.install() in program order
DDI_installSteps ==
    << "validatePython", "validateFiles", "confirm", "deps", "remove", "copy",
       "postInstall", "restart" >>

\* the statement that follows `step` when `step` does not return
NextStep(steps, step) ==
    LET i == CHOOSE k \in 1..Len(steps) : steps[k] = step
    IN  steps[i + 1]

Log(e) == events' = Append(events, e)

Return(value) == ret' = value /\ pc' = "done"

Dialogs == { "confirmDialog", "saveDialog", "restartDialog" }

Mutations == { "saveScene", "newScene", "unloadPlugin", "remove", "copy", "deps",
               "postInstall", "quit" }

\* the directories copy() can be given: missing, empty, or holding files
InitCopyVars ==
    /\ sourceDir \in { sd \in [ exists : BOOLEAN, files : SUBSET ModuleDirFiles ] :
                          ~sd.exists => sd.files = {} }
    /\ destinationDir \in { d \in SUBSET ({ ModuleDir } \cup ModuleDirFiles) :
                               DstConsistent(d) }
    /\ copyOk = {}
    /\ copyReturn = "none"

\* one call copy(source, destination) with a directory as source; QFile.copy
\* succeeds for the files in okFiles, `last` is the file the QDirIterator
\* yields last
copy ==
    \E okFiles \in SUBSET sourceDir.files :
        \E last \in (IF sourceDir.files = {} THEN { IconFile } ELSE sourceDir.files) :
            LET r == copyDirectory(sourceDir.exists, sourceDir.files,
                                   destinationDir, okFiles, last)
            IN  /\ destinationDir' = r.dst
                /\ copyReturn' = r.ret
                /\ copyOk' = okFiles
                /\ UNCHANGED << sourceDir, installVars, menuVars, optionVars,
                                sceneVars, sessionVars >>

(***************************************************************************)
(* The host session before any installer file is dropped.                  *)
(***************************************************************************)
InitInstallVars ==
    /\ mayaVersion \in MayaVersions
    /\ mayaPythonVersion \in PythonVersions
    /\ src \in SUBSET Manifest
    /\ dst \in { d \in SUBSET DstPaths : DstConsistent(d) }
    /\ pluginLoaded \in BOOLEAN
    /\ sceneModified \in BOOLEAN
    /\ quitCalled = FALSE
    /\ installer = "none"
    /\ pc = "idle"
    /\ events = << >>
    /\ ret = "none"
    /\ confirmInput = "none"
    /\ saveInput = "none"
    /\ restartInput = "none"
    /\ setupRet = "none"
    /\ depsRet = "none"
    /\ copyRet = << "none", "none" >>
    /\ dstAtStart = dst

\* a new installer object starts install()
StartInstall(class, steps) ==
    /\ pc \in { "idle", "done" }
    /\ ~quitCalled
    /\ installer' = class
    /\ pc' = steps[1]
    /\ events' = << >>
    /\ ret' = "none"
    /\ confirmInput' = "none"
    /\ saveInput' = "none"
    /\ restartInput' = "none"
    /\ setupRet' = "none"
    /\ depsRet' = "none"
    /\ copyRet' = << "none", "none" >>
    /\ dstAtStart' = dst
    /\ UNCHANGED << mayaVersion, mayaPythonVersion, src, dst, pluginLoaded,
                    sceneModified, quitCalled >>

(***************************************************************************)
(* VideoReferenceInstaller (videoReferenceDragDropInstall.py)              *)
(***************************************************************************)
VRI_onMayaDroppedPythonFile ==
    /\ StartInstall("VRI", VRI_installSteps)
    /\ UNCHANGED << menuVars, optionVars, sceneVars, copyVars, sessionVars >>

\* install(): the python version is validated only when running in maya 2022
VRI_install_validatePython ==
    /\ installer = "VRI" /\ pc = "validatePython"
    /\ IF mayaVersion = 2022
       THEN /\ Log("validatePython")
            /\ IF ~validatePythonVersion(mayaPythonVersion, requiredVersion)
               THEN Return("False")
               ELSE pc' = NextStep(VRI_installSteps, "validatePython") /\ ret' = ret
       ELSE /\ pc' = NextStep(VRI_installSteps, "validatePython")
            /\ UNCHANGED << events, ret >>
    /\ UNCHANGED << mayaVersion, mayaPythonVersion, src, dst, pluginLoaded,
                    sceneModified, quitCalled, installer, confirmInput, saveInput,
                    restartInput, setupRet, depsRet, copyRet, dstAtStart >>
    /\ UNCHANGED << menuVars, optionVars, sceneVars, copyVars, sessionVars >>

VRI_install_validateFiles ==
    /\ installer = "VRI" /\ pc = "validateFiles"
    /\ Log("validateFiles")
    /\ IF ~validateInstallationFiles(src)
       THEN Return("False")
       ELSE pc' = NextStep(VRI_installSteps, "validateFiles") /\ ret' = ret
    /\ UNCHANGED << mayaVersion, mayaPythonVersion, src, dst, pluginLoaded,
                    sceneModified, quitCalled, installer, confirmInput, saveInput,
                    restartInput, setupRet, depsRet, copyRet, dstAtStart >>
    /\ UNCHANGED << menuVars, optionVars, sceneVars, copyVars, sessionVars >>

\* the installation dialog: buttons Install / Cancel, dismiss gives Cancel
VRI_install_confirm ==
    /\ installer = "VRI" /\ pc = "confirm"
    /\ \E input \in { "Install", "Cancel" } :
          /\ confirmInput' = input
          /\ Log("confirmDialog")
          /\ IF input = "Install"
             THEN pc' = NextStep(VRI_installSteps, "confirm") /\ ret' = ret
             ELSE Return("False")
    /\ UNCHANGED << mayaVersion, mayaPythonVersion, src, dst, pluginLoaded,
                    sceneModified, quitCalled, installer, saveInput,
                    restartInput, setupRet, depsRet, copyRet, dstAtStart >>
    /\ UNCHANGED << menuVars, optionVars, sceneVars, copyVars, sessionVars >>

\* setupPlugin(): save dialog when the scene is modified, forced new scene,
\* unload; its return value is not used by install()
VRI_install_setupPlugin ==
    /\ installer = "VRI" /\ pc = "setupPlugin"
    /\ LET ask == pluginLoaded /\ sceneModified
       IN  \E input \in (IF ask THEN { "Save", "Don't Save", "Later" } ELSE { "none" }),
              unloaded \in (IF pluginLoaded THEN BOOLEAN ELSE { TRUE }) :
              /\ saveInput' = input
              /\ events' = events
                      \o (IF ask THEN << "saveDialog" >> ELSE << >>)
                      \o (IF input = "Save" THEN << "saveScene" >> ELSE << >>)
                      \o (IF pluginLoaded THEN << "newScene", "unloadPlugin" >> ELSE << >>)
              /\ sceneModified' = (IF pluginLoaded THEN FALSE ELSE sceneModified)
              /\ pluginLoaded' = (pluginLoaded /\ ~unloaded)
              /\ setupRet' = Bool(~(pluginLoaded /\ ~unloaded))
    /\ pc' = NextStep(VRI_installSteps, "setupPlugin")
    /\ UNCHANGED << mayaVersion, mayaPythonVersion, src, dst, quitCalled, installer,
                    ret, confirmInput, restartInput, depsRet, copyRet, dstAtStart >>
    /\ UNCHANGED << menuVars, optionVars, sceneVars, copyVars, sessionVars >>

VRI_install_remove ==
    /\ installer = "VRI" /\ pc = "remove"
    /\ Log("remove")
    /\ dst' = removeExistingVersion(dst)
    /\ pc' = NextStep(VRI_installSteps, "remove")
    /\ UNCHANGED << mayaVersion, mayaPythonVersion, src, pluginLoaded,
                    sceneModified, quitCalled, installer, ret, confirmInput, saveInput,
                    restartInput, setupRet, depsRet, copyRet, dstAtStart >>
    /\ UNCHANGED << menuVars, optionVars, sceneVars, copyVars, sessionVars >>

\* copyInstallationFiles(): each QFile.copy may fail, the results are dropped
VRI_install_copy ==
    /\ installer = "VRI" /\ pc = "copy"
    /\ Log("copy")
    /\ \E okFiles \in SUBSET Manifest, last \in ModuleDirFiles :
          LET r == copyInstallationFiles(src, dst, okFiles, last)
          IN  dst' = r.dst /\ copyRet' = r.ret
    /\ pc' = NextStep(VRI_installSteps, "copy")
    /\ UNCHANGED << mayaVersion, mayaPythonVersion, src, pluginLoaded,
                    sceneModified, quitCalled, installer, ret, confirmInput, saveInput,
                    restartInput, setupRet, depsRet, dstAtStart >>
    /\ UNCHANGED << menuVars, optionVars, sceneVars, copyVars, sessionVars >>

\* installDependencies(): pip install --target below the module's scripts
\* directory; a failing pip may or may not have written there already
VRI_install_deps ==
    /\ installer = "VRI" /\ pc = "deps"
    /\ Log("deps")
    /\ \E ok \in BOOLEAN, wrote \in BOOLEAN :
          /\ ok => wrote
          /\ depsRet' = Bool(ok)
          /\ dst' = (IF wrote THEN dst \cup { ModuleDir, PipTarget } ELSE dst)
          /\ pc' = (IF ok THEN NextStep(VRI_installSteps, "deps") ELSE "rollback")
    /\ UNCHANGED << mayaVersion, mayaPythonVersion, src, pluginLoaded,
                    sceneModified, quitCalled, installer, ret, confirmInput, saveInput,
                    restartInput, setupRet, copyRet, dstAtStart >>
    /\ UNCHANGED << menuVars, optionVars, sceneVars, copyVars, sessionVars >>

\* the dependency install failed: removeExistingVersion(), return False
VRI_install_rollback ==
    /\ installer = "VRI" /\ pc = "rollback"
    /\ Log("remove")
    /\ dst' = removeExistingVersion(dst)
    /\ Return("False")
    /\ UNCHANGED << mayaVersion, mayaPythonVersion, src, pluginLoaded,
                    sceneModified, quitCalled, installer, confirmInput, saveInput,
                    restartInput, setupRet, depsRet, copyRet, dstAtStart >>
    /\ UNCHANGED << menuVars, optionVars, sceneVars, copyVars, sessionVars >>

\* the restart dialog: Restart quits the host, anything else leaves it running
VRI_install_restart ==
    /\ installer = "VRI" /\ pc = "restart"
    /\ \E input \in { "Restart", "Later" } :
          /\ restartInput' = input
          /\ events' = events \o << "restartDialog" >>
                              \o (IF input = "Restart" THEN << "quit" >> ELSE << >>)
          /\ quitCalled' = (input = "Restart")
    /\ Return("True")
    /\ UNCHANGED << mayaVersion, mayaPythonVersion, src, dst, pluginLoaded,
                    sceneModified, installer, confirmInput, saveInput,
                    setupRet, depsRet, copyRet, dstAtStart >>
    /\ UNCHANGED << menuVars, optionVars, sceneVars, copyVars, sessionVars >>

(***************************************************************************)
(* DragDropInstall (dragDropInstall.py)                                    *)
(***************************************************************************)
DDI_onMayaDroppedPythonFile ==
    /\ StartInstall("DDI", DDI_installSteps)
    /\ UNCHANGED << menuVars, optionVars, sceneVars, copyVars, sessionVars >>

\* install(): the python version is validated for every host version
DDI_install_validatePython ==
    /\ installer = "DDI" /\ pc = "validatePython"
    /\ Log("validatePython")
    /\ IF ~validatePythonVersion(mayaPythonVersion, requiredVersion)
       THEN Return("False")
       ELSE pc' = NextStep(DDI_installSteps, "validatePython") /\ ret' = ret
    /\ UNCHANGED << mayaVersion, mayaPythonVersion, src, dst, pluginLoaded,
                    sceneModified, quitCalled, installer, confirmInput, saveInput,
                    restartInput, setupRet, depsRet, copyRet, dstAtStart >>
    /\ UNCHANGED << menuVars, optionVars, sceneVars, copyVars, sessionVars >>

DDI_install_validateFiles ==
    /\ installer = "DDI" /\ pc = "validateFiles"
    /\ Log("validateFiles")
    /\ IF ~validateInstallationFiles(src)
       THEN Return("False")
       ELSE pc' = NextStep(DDI_installSteps, "validateFiles") /\ ret' = ret
    /\ UNCHANGED << mayaVersion, mayaPythonVersion, src, dst, pluginLoaded,
                    sceneModified, quitCalled, installer, confirmInput, saveInput,
                    restartInput, setupRet, depsRet, copyRet, dstAtStart >>
    /\ UNCHANGED << menuVars, optionVars, sceneVars, copyVars, sessionVars >>

\* the installation dialog; on "Install" the dependencies come first
DDI_install_confirm ==
    /\ installer = "DDI" /\ pc = "confirm"
    /\ \E input \in { "Install", "Cancel" } :
          /\ confirmInput' = input
          /\ Log("confirmDialog")
          /\ IF input = "Install"
             THEN pc' = NextStep(DDI_installSteps, "confirm") /\ ret' = ret
             ELSE Return("False")
    /\ UNCHANGED << mayaVersion, mayaPythonVersion, src, dst, pluginLoaded,
                    sceneModified, quitCalled, installer, saveInput,
                    restartInput, setupRet, depsRet, copyRet, dstAtStart >>
    /\ UNCHANGED << menuVars, optionVars, sceneVars, copyVars, sessionVars >>

\* installDependencies(): pip install --user, outside the modules directory;
\* on failure install() falls through to return False
DDI_install_deps ==
    /\ installer = "DDI" /\ pc = "deps"
    /\ Log("deps")
    /\ \E ok \in BOOLEAN :
          /\ depsRet' = Bool(ok)
          /\ IF ok
             THEN pc' = NextStep(DDI_installSteps, "deps") /\ ret' = ret
             ELSE Return("False")
    /\ UNCHANGED << mayaVersion, mayaPythonVersion, src, dst, pluginLoaded,
                    sceneModified, quitCalled, installer, confirmInput, saveInput,
                    restartInput, setupRet, copyRet, dstAtStart >>
    /\ UNCHANGED << menuVars, optionVars, sceneVars, copyVars, sessionVars >>

DDI_install_remove ==
    /\ installer = "DDI" /\ pc = "remove"
    /\ Log("remove")
    /\ dst' = removeExistingVersion(dst)
    /\ pc' = NextStep(DDI_installSteps, "remove")
    /\ UNCHANGED << mayaVersion, mayaPythonVersion, src, pluginLoaded,
                    sceneModified, quitCalled, installer, ret, confirmInput, saveInput,
                    restartInput, setupRet, depsRet, copyRet, dstAtStart >>
    /\ UNCHANGED << menuVars, optionVars, sceneVars, copyVars, sessionVars >>

DDI_install_copy ==
    /\ installer = "DDI" /\ pc = "copy"
    /\ Log("copy")
    /\ \E okFiles \in SUBSET Manifest, last \in ModuleDirFiles :
          LET r == copyInstallationFiles(src, dst, okFiles, last)
          IN  dst' = r.dst /\ copyRet' = r.ret
    /\ pc' = NextStep(DDI_installSteps, "copy")
    /\ UNCHANGED << mayaVersion, mayaPythonVersion, src, pluginLoaded,
                    sceneModified, quitCalled, installer, ret, confirmInput, saveInput,
                    restartInput, setupRet, depsRet, dstAtStart >>
    /\ UNCHANGED << menuVars, optionVars, sceneVars, copyVars, sessionVars >>

\* addMenuItem calls that can wait in the idle queue
MaxDeferred == 2

\* postInstallation(): removeModuleEntriesFromSys pops "videoReference" from
\* sys.modules; executeUserSetup runs the installed userSetup.py, whose
\* `from videoReference import VideoReference` then imports the module
\* afresh (a new class object, _menuItems = []) and which queues addMenuItem.
\* Without the two scripts at the destination nothing is imported.
postInstallationResult(items, pending, d) ==
    IF { UserSetupFile, ScriptFile } \subseteq d
    THEN [ moduleLoaded |-> TRUE, menuItems |-> << >>, deferred |-> pending + 1 ]
    ELSE [ moduleLoaded |-> FALSE, menuItems |-> items, deferred |-> pending ]

\* nothing below the modules directory changes
DDI_install_postInstallation ==
    /\ installer = "DDI" /\ pc = "postInstall"
    /\ Log("postInstall")
    /\ LET r == postInstallationResult(menuItems, deferred, dst)
       IN  /\ r.deferred <= MaxDeferred
           /\ moduleLoaded' = r.moduleLoaded
           /\ menuItems' = r.menuItems
           /\ deferred' = r.deferred
    /\ pc' = NextStep(DDI_installSteps, "postInstall")
    /\ UNCHANGED << mayaVersion, mayaPythonVersion, src, dst, pluginLoaded,
                    sceneModified, quitCalled, installer, ret, confirmInput, saveInput,
                    restartInput, setupRet, depsRet, copyRet, dstAtStart >>
    /\ UNCHANGED << hostMenu, nextHandle, menuHist, optionVars, sceneVars, copyVars >>

DDI_install_restart ==
    /\ installer = "DDI" /\ pc = "restart"
    /\ \E input \in { "Restart", "Later" } :
          /\ restartInput' = input
          /\ events' = events \o << "restartDialog" >>
                              \o (IF input = "Restart" THEN << "quit" >> ELSE << >>)
          /\ quitCalled' = (input = "Restart")
    /\ Return("True")
    /\ UNCHANGED << mayaVersion, mayaPythonVersion, src, dst, pluginLoaded,
                    sceneModified, installer, confirmInput, saveInput,
                    setupRet, depsRet, copyRet, dstAtStart >>
    /\ UNCHANGED << menuVars, optionVars, sceneVars, copyVars, sessionVars >>

(***************************************************************************)
(* VideoReference menu registration (videoReference.py)                    *)
(*                                                                         *)
(* A menu item is a record [label, id]; the host's own items carry the     *)
(* label "maya", except the anchor "measureItem".  A host menu command     *)
(* that fails raises, and the exception leaves the method at that point.   *)
(***************************************************************************)
MaxHandles == 6

HostItem(n) == [ label |-> "maya", id |-> n ]

measureItem == [ label |-> "measureItem", id |-> 0 ]

\* mainCreateMenu as the host builds it
mainCreateMenu ==
    << HostItem(1), HostItem(2), HostItem(3), HostItem(4), measureItem, HostItem(5) >>

OwnLabels == { "Video Reference", "Video Reference optionBox" }

Range(seq) == { seq[i] : i \in 1..Len(seq) }

\* the items of this module currently in the host menu
Registered == { it \in Range(hostMenu) : it.label \in OwnLabels }

\* python's items[k] for a 0-based k, negative k counting from the end
PyIndex(seq, k) == IF k >= 0 THEN seq[k + 1] ELSE seq[Len(seq) + k + 1]

\* the 0-based index of the last item equal to "measureItem"
measureItemIndex(items) ==
    (CHOOSE i \in 1..Len(items) :
        /\ items[i] = measureItem
        /\ \A j \in (i + 1)..Len(items) : items[j] # measureItem) - 1

\* cmds.menuItem(insertAfter=anchor): the menu with `item` right after `anchor`
InsertAfter(menu, anchor, item) ==
    LET k == CHOOSE i \in 1..Len(menu) : menu[i] = anchor
    IN  SubSeq(menu, 1, k) \o << item >> \o SubSeq(menu, k + 1, Len(menu))

\* cmds.deleteUI(item, menuItem=True)
DeleteUI(menu, item) == SelectSeq(menu, LAMBDA x : x # item)

createMenuItemsResult_NoGuard(items, menu, handle, fail) ==
    LET videoReferenceItem   == [ label |-> "Video Reference", id |-> handle ]
        videoReferenceOptBox == [ label |-> "Video Reference optionBox", id |-> handle + 1 ]
        anchor == PyIndex(menu, measureItemIndex(menu) - 3)
        menu1  == InsertAfter(menu, anchor, videoReferenceItem)
        menu2  == InsertAfter(menu1, videoReferenceItem, videoReferenceOptBox)
    IN  [ menuItems |-> items \o << videoReferenceItem, videoReferenceOptBox >>,
          hostMenu |-> menu2, nextHandle |-> handle + 2, ret |-> "True" ]

\* createMenuItems(): `fail` is the cmds.menuItem call that raises (0: none)
createMenuItemsResult(items, menu, handle, fail) ==
    IF Len(items) = 0
    THEN LET videoReferenceItem   == [ label |-> "Video Reference", id |-> handle ]
             videoReferenceOptBox == [ label |-> "Video Reference optionBox", id |-> handle + 1 ]
             anchor == PyIndex(menu, measureItemIndex(menu) - 3)
             menu1  == InsertAfter(menu, anchor, videoReferenceItem)
             menu2  == InsertAfter(menu1, videoReferenceItem, videoReferenceOptBox)
         IN  CASE fail = 1 ->
                    [ menuItems |-> items, hostMenu |-> menu,
                      nextHandle |-> handle, ret |-> "raised" ]
               [] fail = 2 ->
                    [ menuItems |-> items, hostMenu |-> menu1,
                      nextHandle |-> handle + 1, ret |-> "raised" ]
               [] OTHER ->
                    [ menuItems |-> items \o << videoReferenceItem, videoReferenceOptBox >>,
                      hostMenu |-> menu2, nextHandle |-> handle + 2, ret |-> "True" ]
    ELSE [ menuItems |-> items, hostMenu |-> menu, nextHandle |-> handle, ret |-> "False" ]

\* the menu after cmds.deleteUI ran for the first n tracked items
RECURSIVE DeleteFirst(_, _, _)
DeleteFirst(menu, items, n) ==
    IF n = 0 THEN menu ELSE DeleteUI(DeleteFirst(menu, items, n - 1), items[n])

\* the first tracked item whose cmds.deleteUI raises: the item `fail` says,
\* or an earlier one that is no longer in the menu (0: none raises)
FirstRaise(menu, items, fail) ==
    LET bad == { i \in 1..Len(items) : i = fail \/ items[i] \notin Range(menu) }
    IN  IF bad = {} THEN 0 ELSE CHOOSE i \in bad : \A j \in bad : i <= j

deleteMenuItemsResult_NoClear(items, menu, fail) ==
    IF Len(items) # 0
    THEN LET r == FirstRaise(menu, items, fail)
         IN  IF r # 0
             THEN [ menuItems |-> items, hostMenu |-> DeleteFirst(menu, items, r - 1),
                    ret |-> "raised" ]
             ELSE [ menuItems |-> items, hostMenu |-> DeleteFirst(menu, items, Len(items)),
                    ret |-> "True" ]
    ELSE [ menuItems |-> items, hostMenu |-> menu, ret |-> "False" ]

\* deleteMenuItems(): `fail` is the tracked item whose deleteUI raises (0: none)
deleteMenuItemsResult(items, menu, fail) ==
    IF Len(items) # 0
    THEN LET r == FirstRaise(menu, items, fail)
         IN  IF r # 0
             THEN [ menuItems |-> items, hostMenu |-> DeleteFirst(menu, items, r - 1),
                    ret |-> "raised" ]
             ELSE [ menuItems |-> << >>, hostMenu |-> DeleteFirst(menu, items, Len(items)),
                    ret |-> "True" ]
    ELSE [ menuItems |-> items, hostMenu |-> menu, ret |-> "False" ]

\* the last two calls, newest last
Remember(call) ==
    menuHist' = IF Len(menuHist) < 2 THEN Append(menuHist, call)
                ELSE << menuHist[2], call >>

InitMenuVars ==
    /\ menuItems = << >>
    /\ hostMenu = mainCreateMenu
    /\ nextHandle = 1
    /\ menuHist = << >>

\* one call VideoReference.createMenuItems()
CreateMenuItemsCall ==
    \E fail \in 0..2 :
        LET r == createMenuItemsResult(menuItems, hostMenu, nextHandle, fail)
        IN  /\ r.nextHandle <= MaxHandles + 1
            /\ menuItems' = r.menuItems
            /\ hostMenu' = r.hostMenu
            /\ nextHandle' = r.nextHandle
            /\ Remember([ op |-> "createMenuItems", ret |-> r.ret ])

createMenuItems ==
    /\ CreateMenuItemsCall
    /\ UNCHANGED << installVars, optionVars, sceneVars, copyVars, sessionVars >>

\* userSetup.addMenuItem, run from the idle queue of an interactive session
\* (no install() is executing, the host has not quit): the name
\* VideoReference is the class of the latest import
addMenuItem ==
    /\ deferred > 0
    /\ pc \in { "idle", "done" } /\ ~quitCalled
    /\ deferred' = deferred - 1
    /\ CreateMenuItemsCall
    /\ UNCHANGED << moduleLoaded, installVars, optionVars, sceneVars, copyVars >>

deleteMenuItems ==
    \E fail \in 0..Len(menuItems) :
        LET r == deleteMenuItemsResult(menuItems, hostMenu, fail)
        IN  /\ menuItems' = r.menuItems
            /\ hostMenu' = r.hostMenu
            /\ Remember([ op |-> "deleteMenuItems", ret |-> r.ret ])
            /\ UNCHANGED << nextHandle, installVars, optionVars, sceneVars, copyVars, sessionVars >>

(***************************************************************************)
(* Option persistence (videoReference.py)                                  *)
(*                                                                         *)
(* Each option is named after its doIt parameter; its widget and its       *)
(* option variable share one host name (_attachToCameraWidget, ...).       *)
(* An option variable that was never saved queries as 0.                   *)
(***************************************************************************)
Options == { "attachToCamera", "animClip", "openTimeEditor" }

\* one option block of getCreateCommandKwargs(): the key of args
optionKwarg(exists, value, stored) ==
    IF exists
    THEN (IF value THEN "True" ELSE "False")
    ELSE (IF stored # 0 THEN "True" ELSE "absent")

optionStored_Clobber(exists, value, stored) ==
    IF exists /\ value THEN 1 ELSE 0

\* one option block of getCreateCommandKwargs(): the option variable after it
optionStored(exists, value, stored) ==
    IF exists
    THEN (IF value THEN 1 ELSE 0)
    ELSE stored

\* getCreateCommandKwargs(): the dictionary and the option variables
getCreateCommandKwargs(exists, value, store) ==
    [ args      |-> [ o \in Options |-> optionKwarg(exists[o], value[o], store[o]) ],
      optionVar |-> [ o \in Options |-> optionStored(exists[o], value[o], store[o]) ] ]

\* doIt(attachToCamera=True, animClip=True, openTimeEditor=True) called as
\* doIt(**args): a key that is absent takes the parameter's default
doItParameters(args) ==
    [ o \in Options |-> IF args[o] = "absent" THEN "True" ELSE args[o] ]

(***************************************************************************)
(* VideoReference.doIt (videoReference.py)                                 *)
(*                                                                         *)
(* Lengths are whole numbers of scene units; a fraction is a record        *)
(* [num, den].  A truth value passed to doIt is "True" or "False".         *)
(***************************************************************************)
\* the cameras a 3d view can look through
Cameras == { "persp", "camera1" }

\* cmds.getAttr("<camera shape>.nearClipPlane")
nearClipPlane == [ c \in Cameras |-> IF c = "persp" THEN 1 ELSE 2 ]

\* the files the picker can offer
VideoFiles == { "a.mp4", "b.mov" }

\* frame counts cv2 reports are 0 .. MaxDuration (0: nothing could be read)
MaxDuration == 2

Durations == 0 .. MaxDuration

\* what cv2.VideoCapture reads from one file: frame width, height and count
Captures == [ width : { 1920 }, height : { 1080 }, frames : Durations ]

\* the answers of the confirm dialog of unhideCamera; it has no dismissString
BreakAnswers == { "Break", "Don't Break", "dismiss" }

\* path.split("/")[-1].split(".")[0]
videoName(path) == IF path = "a.mp4" THEN "a" ELSE "b"

\* fileDialog2(fileMode=4): any number of existing files, each once; None
\* (here << >>) when the dialog is cancelled
Picks(files) ==
    { p \in UNION { [ 1..n -> files ] : n \in 0..Cardinality(files) } :
        \A i, j \in DOMAIN p : p[i] = p[j] => i = j }

unhideCamera_NoDialog(plug, input) ==
    IF ~plug.value \/ plug.connected
    THEN [ plug |-> [ value |-> TRUE, locked |-> FALSE, connected |-> FALSE ],
           log  |-> (IF plug.locked THEN << "setLocked" >> ELSE << >>)
                        \o (IF plug.connected THEN << "disconnect" >> ELSE << >>)
                        \o << "setBool", "dgMod.doIt" >>,
           ret  |-> "True" ]
    ELSE [ plug |-> plug, log |-> << >>, ret |-> "False" ]

\* unhideCamera(visibilityPlug): input is the answer of the confirm dialog.
\* The plug is as the calls leave it when the method returns; what the source
\* of a connection that is kept feeds into it shows at a later evaluation.
unhideCamera(plug, input) ==
    IF ~plug.value \/ plug.connected
    THEN LET break == plug.connected /\ input = "Break"
             \* setLocked(False)
             unlocked == [ plug EXCEPT !.locked = FALSE ]
             \* setBool(True)
             written == [ unlocked EXCEPT !.value = TRUE ]
             \* _dgMod.doIt() runs the disconnect queued after the dialog
             done == IF break
                     THEN [ written EXCEPT !.connected = FALSE ]
                     ELSE written
         IN  [ plug |-> done,
               log  |-> (IF plug.locked THEN << "setLocked" >> ELSE << >>)
                            \o (IF plug.connected THEN << "confirmDialog" >> ELSE << >>)
                            \o (IF break THEN << "disconnect" >> ELSE << >>)
                            \o << "setBool", "dgMod.doIt" >>,
               ret  |-> "True" ]
    ELSE [ plug |-> plug, log |-> << >>, ret |-> "False" ]

\* setupCamera(): the class attributes and the visibility plug after it
setupCamera(camera, plug, input) ==
    LET u == unhideCamera(plug, input)
    IN  [ cameraTransform |-> camera,
          nearClip        |-> nearClipPlane[camera],
          plug            |-> u.plug,
          log             |-> u.log ]

setupTimeEditor_AlwaysCreate(comps, active) ==
    [ compositions |-> comps \cup { "Composition1" },
      active       |-> "Composition1",
      log          |-> << "timeEditorComposition" >> ]

\* setupTimeEditor(): "Composition1" is created when the scene has no
\* timeEditorTracks node; the active composition is queried afterwards
setupTimeEditor(comps, active) ==
    IF comps = {}
    THEN [ compositions |-> { "Composition1" },
           active       |-> "Composition1",
           log          |-> << "timeEditorComposition" >> ]
    ELSE [ compositions |-> comps, active |-> active, log |-> << >> ]

One == [ num |-> 1, den |-> 1 ]

\* the default of attachToCamera's scale parameter: 0.0025
defaultScale == [ num |-> 25, den |-> 10000 ]

\* createVideoPlane(name, path, width, height, duration): the free image
\* plane cmds.imagePlane creates, with the attributes set on its shape
createVideoPlane(name, path, width, height, duration) ==
    [ name        |-> name,
      imageName   |-> path,
      lookThrough |-> "persp",
      width       |-> [ num |-> width, den |-> 10 ],
      height      |-> [ num |-> height, den |-> 10 ],
      frameCache  |-> duration,
      keys        |-> << >>,
      parent      |-> "world",
      translate   |-> << 0, 0, 0 >>,
      rotate      |-> << 0, 0, 0 >>,
      scale       |-> << One, One, One >> ]

\* one cmds.setKeyframe(videoShape, attribute="frameExtension", ...) call
setKeyframe(time, value, inTangentType, outTangentType) ==
    [ time |-> time, value |-> value,
      inTangentType |-> inTangentType, outTangentType |-> outTangentType ]

keyVideoPlane_HoldEnd(startFrame, endFrame) ==
    [ i \in 1..2 |->
        setKeyframe(IF i = 1 THEN startFrame ELSE endFrame, endFrame,
                    "linear", "linear") ]

\* keyVideoPlane(videoShape, startFrame, endFrame): the setKeyframe calls
keyVideoPlane(startFrame, endFrame) ==
    [ i \in 1..2 |->
        LET frame == IF i = 1 THEN startFrame ELSE endFrame
        IN  setKeyframe(frame, frame, "linear", "linear") ]

keyStart_AlwaysOne(animClip, currentFrame) == 1

\* the start frame doIt passes to keyVideoPlane
keyStart(animClip, currentFrame) == IF animClip THEN 1 ELSE currentFrame

\* createTimeEditorClip(name, startFrame, endFrame): the clip "<name>_animClip"
\* on a new track of the composition
createTimeEditorClip(name, startFrame, endFrame, composition) ==
    [ object |-> name, startTime |-> startFrame, duration |-> endFrame,
      track |-> composition ]

attachToCamera_NearClipOnly(plane, camera, near, scale) ==
    [ plane EXCEPT !.parent = camera,
                   !.translate = << 0, 0, 0 - near >>,
                   !.rotate = << 0, 0, 0 >>,
                   !.scale = << scale, scale, scale >> ]

\* attachToCamera(videoTransform, scale): parent, zero the six channels, move
\* by (0, 0, -(nearClip+1)) relative in object space, scale the selection
\* (cmds.parent leaves the parented transform selected)
attachToCamera(plane, camera, near, scale) ==
    [ plane EXCEPT !.parent = camera,
                   !.translate = << 0 + 0, 0 + 0, 0 + (0 - (near + 1)) >>,
                   !.rotate = << 0, 0, 0 >>,
                   !.scale = << scale, scale, scale >> ]

Picked_Always(paths) == TRUE

\* `if videoPaths:`
Picked(paths) == paths # << >>

\* the body of `for path in videoPaths` up to attachToCamera, for one file
videoPlane(path, capture, args, currentFrame, camera, near) ==
    LET created == createVideoPlane(videoName(path), path, capture.width,
                                    capture.height, capture.frames)
        keyed == [ created EXCEPT !.keys =
                     keyVideoPlane(keyStart(args["animClip"] = "True", currentFrame),
                                   capture.frames) ]
    IN  IF args["attachToCamera"] = "True"
        THEN attachToCamera(keyed, camera, near, defaultScale)
        ELSE keyed

videoPlanes_FirstOnly(paths, captures, args, currentFrame, camera, near) ==
    [ i \in 1..(IF paths = << >> THEN 0 ELSE 1) |->
        videoPlane(paths[i], captures[paths[i]], args, currentFrame, camera, near) ]

\* the loop `for path in videoPaths`
videoPlanes(paths, captures, args, currentFrame, camera, near) ==
    [ i \in 1..Len(paths) |->
        videoPlane(paths[i], captures[paths[i]], args, currentFrame, camera, near) ]

\* doIt(attachToCamera, animClip, openTimeEditor) with the picker returning
\* paths: the host scene, the class attributes and what was created
doItResult(args, paths, input) ==
    IF Picked(paths)
    THEN LET cam == setupCamera(activeCamera, camVisibility, input)
             currentFrame == currentTime
             animClip == args["animClip"] = "True"
             te == IF animClip
                   THEN setupTimeEditor(compositions, activeComposition)
                   ELSE [ compositions |-> compositions,
                          active |-> activeComposition, log |-> << >> ]
             window == animClip /\ args["openTimeEditor"] = "True"
             planes == videoPlanes(paths, videos, args, currentFrame,
                                   cam.cameraTransform, cam.nearClip)
         IN  [ camVisibility |-> cam.plug,
               compositions |-> te.compositions,
               activeComposition |-> te.active,
               editorOpen |-> (editorOpen \/ window),
               selection |-> {},
               cameraTransform |-> cam.cameraTransform,
               nearClip |-> cam.nearClip,
               timeEditorComposition |->
                   (IF animClip THEN te.active ELSE timeEditorComposition),
               log |-> cam.log \o << "currentTime" >> \o te.log
                         \o (IF window THEN << "TimeEditorWindow" >> ELSE << >>),
               imagePlanes |-> planes,
               clips |-> (IF animClip
                          THEN [ i \in 1..Len(planes) |->
                                   createTimeEditorClip(planes[i].name, currentFrame,
                                       planes[i].frameCache, te.active) ]
                          ELSE << >>),
               ret |-> "True" ]
    ELSE [ camVisibility |-> camVisibility,
           compositions |-> compositions,
           activeComposition |-> activeComposition,
           editorOpen |-> editorOpen,
           selection |-> selection,
           cameraTransform |-> cameraTransform,
           nearClip |-> nearClip,
           timeEditorComposition |-> timeEditorComposition,
           log |-> << >>,
           imagePlanes |-> << >>,
           clips |-> << >>,
           ret |-> "False" ]

\* one call doIt(**args): the user picks files and answers the dialog
DoItCall(args) ==
    \E paths \in Picks(DOMAIN videos) :
        \E input \in (IF Picked(paths) /\ camVisibility.connected
                       THEN BreakAnswers ELSE { "none" }) :
        LET r == doItResult(args, paths, input)
        IN  /\ doItArgs' = args
            /\ breakInput' = input
            /\ videoPaths' = paths
            /\ sceneAtCall' = hostScene
            /\ camVisibility' = r.camVisibility
            /\ compositions' = r.compositions
            /\ activeComposition' = r.activeComposition
            /\ editorOpen' = r.editorOpen
            /\ selection' = r.selection
            /\ cameraTransform' = r.cameraTransform
            /\ nearClip' = r.nearClip
            /\ timeEditorComposition' = r.timeEditorComposition
            /\ doItLog' = r.log
            /\ imagePlanes' = r.imagePlanes
            /\ clips' = r.clips
            /\ doItRet' = r.ret
            /\ UNCHANGED << videos, activeCamera, currentTime >>

\* VideoReference.doIt called with explicit arguments; a behaviour follows
\* one invocation
doIt ==
    /\ doItRet = "none"
    /\ \E args \in [ Options -> { "True", "False" } ] : DoItCall(args)
    /\ UNCHANGED << optionVar, checkBoxExists, checkBoxValue, kwargs,
                    installVars, menuVars, copyVars, sessionVars >>

\* the class attributes an earlier invocation, made while the view looked
\* through camera1 in another scene, has left behind
StaleAttributes == << "camera1", nearClipPlane["camera1"], "Composition1" >>

\* the scenes doIt can be called in, before the first call of the session
\* (class attributes None) or after an earlier one
InitSceneVars ==
    /\ videos \in [ VideoFiles -> Captures ]
    /\ activeCamera \in Cameras
    /\ camVisibility \in [ value : BOOLEAN, locked : BOOLEAN, connected : BOOLEAN ]
    /\ currentTime \in { 1, 2 }
    /\ compositions \in { {}, { "shotComposition" } }
    /\ activeComposition = (IF compositions = {} THEN "None" ELSE "shotComposition")
    /\ editorOpen = FALSE
    /\ selection = { "pCube1" }
    /\ \E a \in { << "None", "None", "None" >>, StaleAttributes } :
           /\ cameraTransform = a[1]
           /\ nearClip = a[2]
           /\ timeEditorComposition = a[3]
    /\ videoPaths = << >>
    /\ breakInput = "none"
    /\ doItLog = << >>
    /\ imagePlanes = << >>
    /\ clips = << >>
    /\ doItRet = "none"
    /\ sceneAtCall = hostScene

(***************************************************************************)
(* The option box and the menu command (videoReference.py)                 *)
(***************************************************************************)
InitOptionVars ==
    /\ optionVar \in [ Options -> { 0, 1 } ]
    /\ checkBoxExists = [ o \in Options |-> FALSE ]
    /\ checkBoxValue = [ o \in Options |-> FALSE ]
    /\ kwargs = [ o \in Options |-> "none" ]
    /\ doItArgs = [ o \in Options |-> "none" ]

\* displayOptionBox(): the three check boxes are built from the option variables
displayOptionBox ==
    /\ checkBoxExists' = [ o \in Options |-> TRUE ]
    /\ checkBoxValue' = [ o \in Options |-> optionVar[o] # 0 ]
    /\ kwargs' = [ o \in Options |-> "none" ]
    /\ doItArgs' = [ o \in Options |-> "none" ]
    /\ UNCHANGED << optionVar, installVars, menuVars, sceneVars, copyVars, sessionVars >>

\* the user ticks or clears one check box of the option box
toggleCheckBox ==
    \E o \in Options :
        /\ checkBoxExists[o]
        /\ checkBoxValue' = [ checkBoxValue EXCEPT ![o] = ~checkBoxValue[o] ]
        /\ kwargs' = [ p \in Options |-> "none" ]
        /\ doItArgs' = [ p \in Options |-> "none" ]
        /\ UNCHANGED << optionVar, checkBoxExists, installVars, menuVars, sceneVars, copyVars, sessionVars >>

\* resetToDefaults(): all three check boxes are ticked
resetToDefaults ==
    /\ \A o \in Options : checkBoxExists[o]
    /\ checkBoxValue' = [ o \in Options |-> TRUE ]
    /\ kwargs' = [ o \in Options |-> "none" ]
    /\ doItArgs' = [ o \in Options |-> "none" ]
    /\ UNCHANGED << optionVar, checkBoxExists, installVars, menuVars, sceneVars, copyVars, sessionVars >>

\* the option box's Save button runs getCreateCommandKwargs()
saveButton ==
    LET r == getCreateCommandKwargs(checkBoxExists, checkBoxValue, optionVar)
    IN  /\ kwargs' = r.args
        /\ optionVar' = r.optionVar
        /\ doItArgs' = [ o \in Options |-> "none" ]
        /\ UNCHANGED << checkBoxExists, checkBoxValue, installVars, menuVars, sceneVars, copyVars, sessionVars >>

\* createVideoReference(): kwargs = getCreateCommandKwargs(); doIt(**kwargs)
createVideoReference ==
    LET r == getCreateCommandKwargs(checkBoxExists, checkBoxValue, optionVar)
    IN  /\ kwargs' = r.args
        /\ optionVar' = r.optionVar
        /\ DoItCall(doItParameters(r.args))
        /\ UNCHANGED << checkBoxExists, checkBoxValue, installVars, menuVars,
                        copyVars, sessionVars >>

\* the option box is taken over by another command, or the host restarts:
\* the check boxes are gone, the option variables stay
optionBoxReplaced ==
    /\ \E o \in Options : checkBoxExists[o]
    /\ checkBoxExists' = [ o \in Options |-> FALSE ]
    /\ checkBoxValue' = [ o \in Options |-> FALSE ]
    /\ kwargs' = [ o \in Options |-> "none" ]
    /\ doItArgs' = [ o \in Options |-> "none" ]
    /\ UNCHANGED << optionVar, installVars, menuVars, sceneVars, copyVars, sessionVars >>

(***************************************************************************)
(* Specifications                                                          *)
(***************************************************************************)
\* the parts a specification leaves alone
MenuAtRest == InitMenuVars

OptionsAtRest ==
    /\ optionVar = [ o \in Options |-> 0 ]
    /\ checkBoxExists = [ o \in Options |-> FALSE ]
    /\ checkBoxValue = [ o \in Options |-> FALSE ]
    /\ kwargs = [ o \in Options |-> "none" ]
    /\ doItArgs = [ o \in Options |-> "none" ]

InstallAtRest ==
    /\ mayaVersion = 2023
    /\ mayaPythonVersion = 3
    /\ src = Manifest
    /\ dst = {}
    /\ pluginLoaded = FALSE
    /\ sceneModified = FALSE
    /\ quitCalled = FALSE
    /\ installer = "none"
    /\ pc = "idle"
    /\ events = << >>
    /\ ret = "none"
    /\ confirmInput = "none"
    /\ saveInput = "none"
    /\ restartInput = "none"
    /\ setupRet = "none"
    /\ depsRet = "none"
    /\ copyRet = << "none", "none" >>
    /\ dstAtStart = {}

\* an empty scene with nothing to pick
SceneAtRest ==
    /\ videos = [ f \in {} |-> f ]
    /\ activeCamera = "persp"
    /\ camVisibility = [ value |-> TRUE, locked |-> FALSE, connected |-> FALSE ]
    /\ currentTime = 1
    /\ compositions = {}
    /\ activeComposition = "None"
    /\ editorOpen = FALSE
    /\ selection = {}
    /\ cameraTransform = "None"
    /\ nearClip = "None"
    /\ timeEditorComposition = "None"
    /\ videoPaths = << >>
    /\ breakInput = "none"
    /\ doItLog = << >>
    /\ imagePlanes = << >>
    /\ clips = << >>
    /\ doItRet = "none"
    /\ sceneAtCall = hostScene

\* no copy() call outside install()
CopyAtRest ==
    /\ sourceDir = [ exists |-> FALSE, files |-> {} ]
    /\ destinationDir = {}
    /\ copyOk = {}
    /\ copyReturn = "none"

\* a session in which the module was never imported
SessionAtRest ==
    /\ moduleLoaded = FALSE
    /\ deferred = 0

InitInstall == InitInstallVars /\ MenuAtRest /\ OptionsAtRest /\ SceneAtRest /\ CopyAtRest /\ SessionAtRest

NextInstall ==
    \/ VRI_onMayaDroppedPythonFile
    \/ VRI_install_validatePython
    \/ VRI_install_validateFiles
    \/ VRI_install_confirm
    \/ VRI_install_setupPlugin
    \/ VRI_install_remove
    \/ VRI_install_copy
    \/ VRI_install_deps
    \/ VRI_install_rollback
    \/ VRI_install_restart
    \/ DDI_onMayaDroppedPythonFile
    \/ DDI_install_validatePython
    \/ DDI_install_validateFiles
    \/ DDI_install_confirm
    \/ DDI_install_deps
    \/ DDI_install_remove
    \/ DDI_install_copy
    \/ DDI_install_postInstallation
    \/ DDI_install_restart

SpecInstall == InitInstall /\ [][NextInstall]_vars

InitMenu == InitMenuVars /\ InstallAtRest /\ OptionsAtRest /\ SceneAtRest /\ CopyAtRest /\ SessionAtRest

NextMenu == createMenuItems \/ deleteMenuItems

SpecMenu == InitMenu /\ [][NextMenu]_vars

InitOptions == InitOptionVars /\ InstallAtRest /\ MenuAtRest /\ SceneAtRest /\ CopyAtRest /\ SessionAtRest

NextOptions ==
    \/ displayOptionBox
    \/ toggleCheckBox
    \/ resetToDefaults
    \/ saveButton
    \/ createVideoReference
    \/ optionBoxReplaced

SpecOptions == InitOptions /\ [][NextOptions]_vars

InitCopy ==
    /\ InitCopyVars /\ InstallAtRest /\ MenuAtRest /\ OptionsAtRest
    /\ SceneAtRest /\ SessionAtRest

NextCopy == copy

SpecCopy == InitCopy /\ [][NextCopy]_vars

\* an interactive session on an installable bundle: either the module is
\* not installed, or it is and userSetup.py has run at startup
InitSession ==
    /\ InitInstallVars
    /\ mayaVersion = 2023 /\ mayaPythonVersion = requiredVersion
    /\ src = Manifest
    /\ ~pluginLoaded /\ ~sceneModified
    /\ \/ dst = {} /\ SessionAtRest
       \/ /\ dst = { ModuleDir, ModFile } \cup ModuleDirFiles
          /\ moduleLoaded = TRUE
          /\ deferred = 1
    /\ InitMenuVars /\ OptionsAtRest /\ SceneAtRest /\ CopyAtRest

NextSession ==
    \/ addMenuItem
    \/ DDI_onMayaDroppedPythonFile
    \/ DDI_install_validatePython
    \/ DDI_install_validateFiles
    \/ DDI_install_confirm
    \/ DDI_install_deps
    \/ DDI_install_remove
    \/ DDI_install_copy
    \/ DDI_install_postInstallation
    \/ DDI_install_restart

SpecSession == InitSession /\ [][NextSession]_vars

InitDoIt == InitSceneVars /\ InstallAtRest /\ MenuAtRest /\ OptionsAtRest /\ CopyAtRest /\ SessionAtRest

NextDoIt == doIt

SpecDoIt == InitDoIt /\ [][NextDoIt]_vars

(***************************************************************************)
(* Properties of the installers (SpecInstall)                              *)
(***************************************************************************)
Logged(set) == SelectSeq(events, LAMBDA e : e \in set)

\* the events logged after the first occurrence of `e`
After(e) ==
    LET at == { i \in 1..Len(events) : events[i] = e }
    IN  IF at = {} THEN << >>
        ELSE SubSeq(events, (CHOOSE i \in at : \A j \in at : i <= j) + 1, Len(events))

Returned == pc = "done"

\* C1: install() of either class, run on a bundle from which at least one
\* manifest file is missing, returns False having shown no dialog, removed
\* or copied nothing and started no dependency install; the destination is
\* as it was when the file was dropped.
C1_MissingFilesAbort ==
    (Returned /\ ~(Manifest \subseteq src)) =>
        /\ ret = "False"
        /\ Logged(Dialogs \cup Mutations) = << >>
        /\ dst = dstAtStart

C1_Witness ==
    /\ Returned /\ installer = "DDI"
    /\ Cardinality(Manifest \ src) = 2
    /\ "validateFiles" \in Range(events)
    /\ ModFile \in dst /\ ScriptFile \in dst
    /\ ret = "False"

\* C2: when VideoReferenceInstaller.install() returns after the user
\* confirmed and the dependency install failed, neither the module
\* directory nor the .mod file exists at the destination, the return value
\* is False, the restart dialog was not shown and the host was not quit.
C2_DepsFailureRollsBack ==
    (Returned /\ installer = "VRI" /\ confirmInput = "Install" /\ depsRet = "False") =>
        /\ dst \cap DstPaths = {}
        /\ ret = "False"
        /\ Logged({ "restartDialog", "quit" }) = << >>
        /\ ~quitCalled

C2_Witness ==
    /\ Returned /\ installer = "VRI"
    /\ confirmInput = "Install" /\ depsRet = "False"
    /\ copyRet = << "True", "True" >>
    /\ Logged({ "copy", "deps", "remove" }) = << "remove", "copy", "deps", "remove" >>
    /\ dst = {}

\* C3 (as claimed): whichever dialog shown before the copy is dismissed or
\* cancelled - the installation dialog ("Cancel") or the save-scene dialog
\* of setupPlugin ("Later") - nothing is mutated after that dialog.
C3_CancelledDialogAborts ==
    /\ (installer = "VRI" /\ confirmInput = "Cancel") =>
            SelectSeq(After("confirmDialog"), LAMBDA e : e \in Mutations) = << >>
    /\ (installer = "VRI" /\ saveInput = "Later") =>
            SelectSeq(After("saveDialog"), LAMBDA e : e \in Mutations) = << >>

\* the successful path: every file present, the user confirms, no plugin
\* loaded, the dependency install succeeds, the user chooses "Restart"
SuccessfulInstall ==
    /\ Returned
    /\ Manifest \subseteq src
    /\ confirmInput = "Install"
    /\ Logged({ "unloadPlugin" }) = << >> /\ ~pluginLoaded
    /\ depsRet = "True"
    /\ restartInput = "Restart"

OrderedEvents ==
    { "validateFiles", "confirmDialog", "remove", "copy", "deps", "restartDialog", "quit" }

\* C4 (as claimed): on the successful path both install() methods validate,
\* confirm, remove the prior install, copy, install the dependency, show
\* the restart dialog and quit, in this order, each once.
C4_SameOrderInBothInstallers ==
    SuccessfulInstall =>
        Logged(OrderedEvents) =
            << "validateFiles", "confirmDialog", "remove", "copy", "deps",
               "restartDialog", "quit" >>

\* C4 (amended): on the successful path VideoReferenceInstaller.install()
\* validates, confirms, removes, copies, installs the dependency, shows the
\* restart dialog and quits, while DragDropInstall.install() installs the
\* dependency right after the confirmation, before it removes and copies;
\* in both the removal runs once, before the copy.
C4_OrderPerInstaller ==
    SuccessfulInstall =>
        /\ installer = "VRI" =>
              Logged(OrderedEvents) =
                  << "validateFiles", "confirmDialog", "remove", "copy", "deps",
                     "restartDialog", "quit" >>
        /\ installer = "DDI" =>
              Logged(OrderedEvents) =
                  << "validateFiles", "confirmDialog", "deps", "remove", "copy",
                     "restartDialog", "quit" >>
        /\ SelectSeq(After("copy"), LAMBDA e : e = "remove") = << >>

C4_Witness ==
    /\ SuccessfulInstall /\ installer = "VRI"
    /\ quitCalled /\ ret = "True"
    /\ copyRet = << "True", "True" >>
    /\ Manifest \subseteq dst

\* C5 (as claimed): for every host version, VideoReferenceInstaller.install()
\* running on a python major version below 3 shows no dialog and mutates
\* nothing, and returns False.
C5_AnyHostVersion ==
    (installer = "VRI" /\ mayaPythonVersion < requiredVersion) =>
        /\ Logged(Dialogs \cup Mutations) = << >>
        /\ Returned => ret = "False"

\* C5 (amended): when the host version is 2022, VideoReferenceInstaller
\* .install() running on a python major version below 3 shows no dialog and
\* mutates nothing, and returns False (other host versions are not checked).
C5_Maya2022Only ==
    (installer = "VRI" /\ mayaVersion = 2022 /\ mayaPythonVersion < requiredVersion) =>
        /\ Logged(Dialogs \cup Mutations) = << >>
        /\ dst = dstAtStart
        /\ Returned => ret = "False"

C5_Witness ==
    /\ Returned /\ installer = "VRI"
    /\ mayaVersion = 2022 /\ mayaPythonVersion = 2
    /\ Manifest \subseteq src
    /\ events = << "validatePython" >>
    /\ ret = "False"

\* C19 (as claimed): once setupPlugin() has returned False (the plugin is
\* still loaded after the unload attempt) VideoReferenceInstaller.install()
\* removes nothing, copies nothing, does not run the dependency installer
\* and returns False.
C19_SetupFailureStopsInstall ==
    (installer = "VRI" /\ setupRet = "False") =>
        /\ Logged({ "remove", "copy", "deps" }) = << >>
        /\ Returned => ret = "False"

\* C20 (as claimed): install() of either class returns True only when both
\* copy() calls of copyInstallationFiles returned True and every manifest
\* file is present at the destination.
C20_TrueOnlyAfterCopy ==
    (Returned /\ ret = "True") =>
        /\ copyRet = << "True", "True" >>
        /\ Manifest \subseteq dst

(***************************************************************************)
(* Properties of the menu registration (SpecMenu)                          *)
(***************************************************************************)
LastCall == menuHist[Len(menuHist)]

\* C6 (as claimed): whatever calls were made and wherever a host menu
\* command failed, the tracked list is empty or as long as the number of
\* registered items, every registered item is tracked and every tracked
\* item is registered.
C6_TrackedIsRegistered ==
    /\ Len(menuItems) = 0 \/ Len(menuItems) = Cardinality(Registered)
    /\ Registered \subseteq Range(menuItems)
    /\ Range(menuItems) \subseteq Registered

\* C7: a createMenuItems() call made while the tracked list is non-empty
\* registers nothing, leaves the tracked list and the host menu as they
\* were and returns False.
C7_CreateIdempotent ==
    [][ (Len(menuItems) # 0 /\ LastCall'.op = "createMenuItems") =>
            /\ menuItems' = menuItems
            /\ hostMenu' = hostMenu
            /\ LastCall'.ret = "False" ]_vars

C7_Witness ==
    /\ menuHist = << [ op |-> "createMenuItems", ret |-> "True" ],
                     [ op |-> "createMenuItems", ret |-> "False" ] >>
    /\ Len(menuItems) = 2
    /\ Cardinality(Registered) = 2

\* C8: a deleteMenuItems() call that returns, made with a non-empty tracked
\* list, leaves none of the tracked items in the host menu, empties the
\* list and returns True; made with an empty list it changes neither the
\* menu nor the list and returns False.
C8_DeleteClears ==
    [][ (LastCall'.op = "deleteMenuItems" /\ LastCall'.ret # "raised") =>
            IF Len(menuItems) # 0
            THEN /\ Range(menuItems) \cap Range(hostMenu') = {}
                 /\ menuItems' = << >>
                 /\ LastCall'.ret = "True"
            ELSE /\ hostMenu' = hostMenu
                 /\ menuItems' = menuItems
                 /\ LastCall'.ret = "False" ]_vars

C8_Witness ==
    /\ menuHist = << [ op |-> "deleteMenuItems", ret |-> "True" ],
                     [ op |-> "deleteMenuItems", ret |-> "False" ] >>
    /\ menuItems = << >>
    /\ hostMenu = mainCreateMenu

(***************************************************************************)
(* Properties of the option persistence (SpecOptions)                      *)
(***************************************************************************)
\* C9 (as claimed): an option that has no check box when createVideoReference
\* runs reaches doIt with the value of its option variable.
C9_PersistedValueReachesDoIt ==
    \A o \in Options :
        (doItArgs[o] # "none" /\ ~checkBoxExists[o]) =>
            doItArgs[o] = Bool(optionVar[o] # 0)

\* C10: getCreateCommandKwargs() returns, for an option whose check box
\* exists, the check box's value and leaves the option variable equal to
\* it; the option variable of an option without a check box is unchanged.
C10_WriteThrough ==
    [][ (\E o \in Options : kwargs'[o] # "none") =>
            \A o \in Options :
                IF checkBoxExists[o]
                THEN /\ kwargs'[o] = Bool(checkBoxValue[o])
                     /\ optionVar'[o] = (IF checkBoxValue[o] THEN 1 ELSE 0)
                ELSE optionVar'[o] = optionVar[o] ]_vars

C10_Witness ==
    /\ checkBoxExists["animClip"] /\ checkBoxExists["attachToCamera"]
    /\ checkBoxValue["animClip"] /\ ~checkBoxValue["attachToCamera"]
    /\ kwargs["animClip"] = "True" /\ optionVar["animClip"] = 1
    /\ kwargs["attachToCamera"] = "False" /\ optionVar["attachToCamera"] = 0

(***************************************************************************)
(* Properties of VideoReference.doIt (SpecDoIt)                            *)
(***************************************************************************)
\* doIt has returned
DoItReturned == doItRet # "none"

\* `a` occurs in the log and every `b` of the log comes after the first `a`
Precedes(log, a, b) ==
    /\ a \in Range(log)
    /\ \A i, j \in 1..Len(log) : (log[i] = a /\ log[j] = b) => i < j

\* C11: when the picker returns no file, doIt returns False and the host is
\* as it was at the call: the camera's visibility value, lock and connection,
\* the compositions, the editor window and the selection are untouched, and
\* no image plane, keyframe or clip was created.
C11_NoFileNoMutation ==
    (DoItReturned /\ videoPaths = << >>) =>
        /\ doItRet = "False"
        /\ hostScene = sceneAtCall
        /\ doItLog = << >>
        /\ imagePlanes = << >>
        /\ clips = << >>

C11_Witness ==
    /\ DoItReturned /\ videoPaths = << >>
    /\ doItRet = "False"
    /\ ~sceneAtCall.camVisibility.value
    /\ sceneAtCall.camVisibility.locked
    /\ sceneAtCall.camVisibility.connected
    /\ sceneAtCall.selection # {}
    /\ doItArgs["animClip"] = "True"

\* C12: with N >= 1 files picked, doIt creates exactly N image planes, the
\* i-th one showing the i-th file of the picker, leaves the selection empty
\* and returns True; it returns True exactly when a file was picked.
C12_OnePlanePerFile ==
    DoItReturned =>
        /\ (doItRet = "True") <=> (Len(videoPaths) >= 1)
        /\ Len(videoPaths) >= 1 =>
              /\ Len(imagePlanes) = Len(videoPaths)
              /\ \A i \in 1..Len(videoPaths) :
                    imagePlanes[i].imageName = videoPaths[i]
              /\ selection = {}

C12_Witness ==
    /\ doItRet = "True"
    /\ Len(videoPaths) = 2
    /\ Len(imagePlanes) = 2
    /\ imagePlanes[1].imageName = "b.mov"
    /\ sceneAtCall.selection # {}

\* the frame count cv2 read from the file of the i-th plane
Duration(i) == videos[videoPaths[i]].frames

\* C13: each created plane got two frameExtension keys, both with linear
\* tangents: at 1 and at the duration when animClip is set, at the scene
\* time of the call and at the duration otherwise.
C13_KeyTimes ==
    doItRet = "True" =>
        \A i \in 1..Len(imagePlanes) :
            LET keys == imagePlanes[i].keys
            IN  /\ Len(keys) = 2
                /\ keys[1].time = (IF doItArgs["animClip"] = "True"
                                   THEN 1 ELSE sceneAtCall.currentTime)
                /\ keys[2].time = Duration(i)
                /\ \A k \in 1..2 : /\ keys[k].inTangentType = "linear"
                                   /\ keys[k].outTangentType = "linear"

C13_Witness ==
    /\ doItRet = "True"
    /\ doItArgs["animClip"] = "False"
    /\ sceneAtCall.currentTime = 2
    /\ Len(imagePlanes) = 2
    /\ Duration(1) = 1

\* C14: keyVideoPlane(shape, 1, duration), as doIt calls it with animClip
\* set, keys a plane of positive duration at frame 1 and at frame duration
\* and nowhere else, each key with linear in and out tangents and with the
\* frame number as its value.
C14_KeysAtOneAndDuration ==
    (doItRet = "True" /\ doItArgs["animClip"] = "True") =>
        \A i \in 1..Len(imagePlanes) :
            Duration(i) >= 1 =>
                /\ { k.time : k \in Range(imagePlanes[i].keys) } = { 1, Duration(i) }
                /\ \A k \in Range(imagePlanes[i].keys) :
                      /\ k.value = k.time
                      /\ k.inTangentType = "linear"
                      /\ k.outTangentType = "linear"

C14_Witness ==
    /\ doItRet = "True" /\ doItArgs["animClip"] = "True"
    /\ \E i \in 1..Len(imagePlanes) : Duration(i) = MaxDuration
    /\ \E i \in 1..Len(imagePlanes) : Duration(i) = 1

\* C15: with attachToCamera set, every created plane is a child of the
\* camera setupCamera resolved, its local translation is
\* (0, 0, -(nearClip + 1)) for the near clip plane of that camera, its
\* rotation is zero and its scale is 0.0025 on the three axes.
C15_AttachedPlaneTransform ==
    (doItRet = "True" /\ doItArgs["attachToCamera"] = "True") =>
        \A i \in 1..Len(imagePlanes) :
            /\ cameraTransform = activeCamera
            /\ imagePlanes[i].parent = activeCamera
            /\ imagePlanes[i].translate =
                   << 0, 0, 0 - (nearClipPlane[activeCamera] + 1) >>
            /\ imagePlanes[i].rotate = << 0, 0, 0 >>
            /\ imagePlanes[i].scale = << defaultScale, defaultScale, defaultScale >>

C15_Witness ==
    /\ doItRet = "True" /\ doItArgs["attachToCamera"] = "True"
    /\ activeCamera = "persp"
    /\ Len(imagePlanes) = 2
    /\ imagePlanes[2].parent = "persp"

\* C16 (as claimed): every image plane doIt creates looks through the camera
\* of the active view, the one setupCamera recorded in _cameraTransform.
C16_LooksThroughActiveCamera ==
    doItRet = "True" =>
        \A i \in 1..Len(imagePlanes) :
            /\ imagePlanes[i].lookThrough = activeCamera
            /\ imagePlanes[i].lookThrough = cameraTransform

\* C17: when the visibility plug of the camera has an incoming connection,
\* the dialog is shown before the plug is written; the connection is
\* disconnected exactly when the answer is "Break"; after "Break" the plug
\* is unconnected and on, after any other answer it is still connected; a
\* plug that was locked is unlocked before it is written.
C17_BreakOnlyWhenAsked ==
    (doItRet = "True" /\ sceneAtCall.camVisibility.connected) =>
        /\ Precedes(doItLog, "confirmDialog", "setBool")
        /\ "setBool" \in Range(doItLog)
        /\ ("disconnect" \in Range(doItLog)) <=> (breakInput = "Break")
        /\ camVisibility.connected <=> (breakInput # "Break")
        /\ breakInput = "Break" => camVisibility.value
        /\ sceneAtCall.camVisibility.locked =>
              /\ Precedes(doItLog, "setLocked", "setBool")
              /\ ~camVisibility.locked

C17_Witness ==
    /\ doItRet = "True"
    /\ sceneAtCall.camVisibility.connected
    /\ sceneAtCall.camVisibility.locked
    /\ ~sceneAtCall.camVisibility.value
    /\ breakInput = "Break"
    /\ ~camVisibility.connected /\ camVisibility.value

C21_CopyDirectoryResult ==
    copyReturn # "none" =>
        /\ copyReturn # "raised"
        /\ copyReturn = "True" => sourceDir.files \subseteq copyOk
        /\ ( \/ ~sourceDir.exists
             \/ sourceDir.files = {}
             \/ ~(sourceDir.files \subseteq copyOk) ) => copyReturn = "False"

(***************************************************************************)
(* Properties of the session (SpecSession)                                 *)
(***************************************************************************)
\* the items of the Create menu with the given label
Labelled(label) == { it \in Range(hostMenu) : it.label = label }

\* C22 (as claimed): whatever startup registration and DragDropInstall
\* installs a session has seen, the Create menu holds at most one
\* "Video Reference" item and at most one option box item of this module.
C22_AtMostOnePair ==
    /\ Cardinality(Labelled("Video Reference")) <= 1
    /\ Cardinality(Labelled("Video Reference optionBox")) <= 1

====
